---- MODULE Spec2Model ----
(***************************************************************************)
(* Model of @tsxo/envy: environment-variable pipelines (src/src/core.ts),   *)
(* the scalar converters (src/src/str-conv.ts), the assertion factory      *)
(* (src/src/assert/create.ts), the error classes (src/src/errors.ts) and    *)
(* the prefix namespace (withPrefix, src/unnamed/part_003).                 *)
(*                                                                         *)
(* JavaScript objects are modelled as heaps: a reference is an index into  *)
(* a sequence, so two references to the same object are the same index.    *)
(* A string is a sequence of one-character strings, so that trim, split,   *)
(* endsWith and numeric parsing are computed character by character.        *)
(***************************************************************************)
EXTENDS Integers, Sequences, FiniteSets, TLC

VARIABLES
    env,      \* process.env: key -> raw string or Undefined
    pipes,    \* heap of Envy objects {_key, _value}
    fns,      \* heap of function objects: body, .context, and the context
              \* object create was given (given, kept for the properties)
    ctxs,     \* heap of context objects (field name -> value)
    errs,     \* heap of thrown error objects {name, context}
    nss,      \* heap of namespace objects returned by withPrefix
    last,     \* the client's view of the call that just returned or threw
    chain     \* a chained expression under evaluation: its operations, how
              \* far evaluation got, and the functions invoked so far

vars == <<env, pipes, fns, ctxs, errs, nss, last, chain>>

----------------------------------------------------------------------------
(* Bounds of the model *)

MaxCalls == 5    \* calls the client makes in one run of a chain specification
MaxNs == 2       \* namespace objects the client creates
MaxSteps == 3    \* operations chained after the entry constructor

----------------------------------------------------------------------------
(* JavaScript values *)

Undefined == [t |-> "undefined"]
Str(s) == [t |-> "string", v |-> s]
Num(n) == [t |-> "number", v |-> n]

\* A number of the model is a decimal with at most one fractional digit.
\* An integer-valued number is Num(n); any other has, beside its integer
\* part v, the field tenths (1..9, negative for a negative number).
\* Tenths(x) is ten times the number, FromTenths its inverse.
Tenths(x) == x.v * 10 + (IF "tenths" \in DOMAIN x THEN x.tenths ELSE 0)

FromTenths(n) ==
    LET a == IF n < 0 THEN 0 - n ELSE n
        sign == IF n < 0 THEN 0 - 1 ELSE 1
    IN IF a % 10 = 0 THEN Num(sign * (a \div 10))
       ELSE [t |-> "number", v |-> sign * (a \div 10), tenths |-> sign * (a % 10)]

Bool(b) == [t |-> "boolean", v |-> b]
Arr(a) == [t |-> "array", v |-> a]

\* An array the caller holds a reference to: r is the index of the array
\* object, whose elements are its field items.
ArrRef(r) == [t |-> "arrayref", r |-> r]

IsStr(x) == x.t = "string"
IsNum(x) == x.t = "number"

\* The `env || defaultValue` test of optional: undefined and "" are falsy.
Falsy(x) ==
    \/ x = Undefined
    \/ (x.t = "string" /\ x.v = <<>>)
    \/ (x.t = "number" /\ Tenths(x) = 0)
    \/ (x.t = "boolean" /\ x.v = FALSE)

----------------------------------------------------------------------------
(* String primitives *)

IsWhite(c) == c \in {" ", "\t"}

RECURSIVE TrimStart(_)
TrimStart(s) ==
    IF s = <<>> THEN <<>>
    ELSE IF IsWhite(Head(s)) THEN TrimStart(Tail(s))
    ELSE s

RECURSIVE TrimEnd(_)
TrimEnd(s) ==
    IF s = <<>> THEN <<>>
    ELSE IF IsWhite(s[Len(s)]) THEN TrimEnd(SubSeq(s, 1, Len(s) - 1))
    ELSE s

Trim(s) == TrimEnd(TrimStart(s))

EndsWith(s, c) == Len(s) > 0 /\ s[Len(s)] = c

UpperChars == <<"A", "B", "C", "D", "E", "F", "G", "H", "I", "J", "K", "L", "M",
                "N", "O", "P", "Q", "R", "S", "T", "U", "V", "W", "X", "Y", "Z">>
LowerChars == <<"a", "b", "c", "d", "e", "f", "g", "h", "i", "j", "k", "l", "m",
                "n", "o", "p", "q", "r", "s", "t", "u", "v", "w", "x", "y", "z">>

LowerChar(c) ==
    IF \E i \in 1..Len(UpperChars) : UpperChars[i] = c
    THEN LowerChars[CHOOSE i \in 1..Len(UpperChars) : UpperChars[i] = c]
    ELSE c

ToLowerCase(s) == [i \in 1..Len(s) |-> LowerChar(s[i])]

\* s.split(sep) for a separator string: the empty separator splits s into
\* its characters, any other is searched from the left, each match
\* starting where the one before it ended.
RECURSIVE SplitAcc(_, _, _)
SplitAcc(s, sep, cur) ==
    IF s = <<>> THEN <<cur>>
    ELSE IF Len(s) >= Len(sep) /\ SubSeq(s, 1, Len(sep)) = sep
         THEN <<cur>> \o SplitAcc(SubSeq(s, Len(sep) + 1, Len(s)), sep, <<>>)
    ELSE SplitAcc(Tail(s), sep, Append(cur, Head(s)))

Split(s, sep) ==
    IF sep = <<>> THEN [i \in 1..Len(s) |-> <<s[i]>>]
    ELSE SplitAcc(s, sep, <<>>)

Digits == <<"0", "1", "2", "3", "4", "5", "6", "7", "8", "9">>
IsDigit(c) == \E i \in 1..10 : Digits[i] = c
DigitVal(c) == (CHOOSE i \in 1..10 : Digits[i] = c) - 1

RECURSIVE DigitsVal(_)
DigitsVal(s) ==
    IF s = <<>> THEN 0
    ELSE DigitsVal(SubSeq(s, 1, Len(s) - 1)) * 10 + DigitVal(s[Len(s)])

AllDigits(s) == Len(s) > 0 /\ \A i \in 1..Len(s) : IsDigit(s[i])

\* Ten times the value of an unsigned literal `digits`, `digits.digit`,
\* `digits.` or `.digit`; -1 when lit is none of these.  Literals with more
\* fractional digits, exponents, hexadecimal literals and Infinity are
\* outside the alphabet of the model inputs.
UnsignedTenths(lit) ==
    IF AllDigits(lit) THEN DigitsVal(lit) * 10
    ELSE IF Len(lit) >= 2 /\ lit[Len(lit)] = "." /\ AllDigits(SubSeq(lit, 1, Len(lit) - 1))
         THEN DigitsVal(SubSeq(lit, 1, Len(lit) - 1)) * 10
    ELSE IF /\ Len(lit) >= 2
            /\ lit[Len(lit) - 1] = "."
            /\ IsDigit(lit[Len(lit)])
            /\ \A i \in 1..(Len(lit) - 2) : IsDigit(lit[i])
         THEN DigitsVal(SubSeq(lit, 1, Len(lit) - 2)) * 10 + DigitVal(lit[Len(lit)])
         ELSE 0 - 1

\* The unary plus of toNumber, on the decimal literals of the model
\* alphabet: surrounding white space is skipped, the empty literal is 0, an
\* optional sign may precede the digits, anything else is NaN.
NaN == [t |-> "NaN"]

UnaryPlus(s) ==
    LET lit == Trim(s) IN
    IF lit = <<>> THEN Num(0)
    ELSE IF UnsignedTenths(lit) >= 0 THEN FromTenths(UnsignedTenths(lit))
    ELSE IF Head(lit) = "-" /\ UnsignedTenths(Tail(lit)) >= 0
         THEN FromTenths(0 - UnsignedTenths(Tail(lit)))
    ELSE IF Head(lit) = "+" /\ UnsignedTenths(Tail(lit)) >= 0
         THEN FromTenths(UnsignedTenths(Tail(lit)))
    ELSE NaN

----------------------------------------------------------------------------
(* Objects and the heap.  A world is the part of the state the library     *)
(* reads and writes; an operator that models a function takes a world and  *)
(* returns an outcome: the world after the call, whether the call returned *)
(* (ok) or threw, and the returned reference or value (ret), which for a   *)
(* throw is the reference of the error object.                             *)

EmptyObj == [x \in {} |-> Undefined]

Put(o, f, v) == [x \in (DOMAIN o) \cup {f} |-> IF x = f THEN v ELSE o[x]]

Has(o, f) == f \in DOMAIN o

World == [pipes |-> pipes, fns |-> fns, ctxs |-> ctxs, errs |-> errs]

Return(w, r) == [w |-> w, ok |-> TRUE, ret |-> r]

\* `new X(...)` for an error class followed by `throw`: BaseError stores the
\* context reference it is given.
BaseError(w, name, ctxRef) ==
    [w |-> [w EXCEPT !.errs = Append(@, [name |-> name, context |-> ctxRef])],
     ok |-> FALSE,
     ret |-> Len(w.errs) + 1]

\* An object literal evaluated by the library or the caller: a new object.
NewObj(w, o) == [w EXCEPT !.ctxs = Append(@, o)]
NewRef(w) == Len(w.ctxs) + 1

MissingError(w, key) ==
    BaseError(NewObj(w, Put(EmptyObj, "key", key)), "MissingError", NewRef(w))

\* AssertError writes key and value into the context object it is handed.
AssertError(w, key, value, ctxRef) ==
    LET w1 == [w EXCEPT !.ctxs[ctxRef] = Put(Put(@, "key", key), "value", value)]
    IN BaseError(w1, "AssertError", ctxRef)

\* ConversionError writes value (the input string) into its context; every
\* caller in str-conv.ts passes a fresh object literal.
ConversionError(w, value, o) ==
    BaseError(NewObj(w, Put(o, "value", value)), "ConversionError", NewRef(w))

----------------------------------------------------------------------------
(* Scalar converters (str-conv.ts) *)

Truthy == {<<"t", "r", "u", "e">>, <<"y", "e", "s">>, <<"1">>, <<"o", "n">>}
Falsey == {<<"f", "a", "l", "s", "e">>, <<"n", "o">>, <<"0">>, <<"o", "f", "f">>}

ConvCtx(desc, target) ==
    Put(Put(Put(EmptyObj, "description", desc), "sourceType", "string"),
        "targetType", target)

\* toBool that does not trim
toBool_noTrim(w, s) ==
    LET norm == ToLowerCase(s) IN
    IF norm \in Truthy THEN Return(w, Bool(TRUE))
    ELSE IF norm \in Falsey THEN Return(w, Bool(FALSE))
    ELSE ConversionError(w, Str(s), ConvCtx(<<"Value must be one of: ", Truthy, Falsey>>, "boolean"))

toBool(w, s) ==
    LET norm == Trim(ToLowerCase(s)) IN
    IF norm \in Truthy THEN Return(w, Bool(TRUE))
    ELSE IF norm \in Falsey THEN Return(w, Bool(FALSE))
    ELSE ConversionError(w, Str(s), ConvCtx(<<"Value must be one of: ", Truthy, Falsey>>, "boolean"))

\* toArray that drops the empty segments
toArray_dropsEmpty(w, s, sep) ==
    LET parts == SelectSeq(Split(s, sep), LAMBDA x : Trim(x) # <<>>) IN
    Return(w, Arr([i \in 1..Len(parts) |-> Trim(parts[i])]))

toArray(w, s, sep) ==
    LET parts == Split(s, sep) IN
    Return(w, Arr([i \in 1..Len(parts) |-> Trim(parts[i])]))

\* toNumber without the test for the empty string
toNumber_noEmptyCheck(w, s) ==
    LET num == UnaryPlus(s) IN
    IF num = NaN
    THEN ConversionError(w, Str(s), ConvCtx(<<"Value ", s, " is not a number.">>, "number"))
    ELSE Return(w, num)

toNumber(w, s) ==
    IF Len(s) = 0
    THEN ConversionError(w, Str(s), ConvCtx(<<"Cannot convert an empty string to a number">>, "number"))
    ELSE LET num == UnaryPlus(s) IN
         IF num = NaN
         THEN ConversionError(w, Str(s), ConvCtx(<<"Value ", s, " is not a number.">>, "number"))
         ELSE Return(w, num)

----------------------------------------------------------------------------
(* Assertion factory and built-in assertions *)

\* A function expression evaluated: a new function object without context.
Lambda(w, body) ==
    Return([w EXCEPT !.fns = Append(@, [body |-> body, context |-> 0,
                                        given |-> EmptyObj])],
           Len(w.fns) + 1)

\* create(predicate, context): Object.assign(predicate, {context}) sets the
\* property on the predicate itself and returns that same function.  ctxRef
\* is 0 when no context is given.
create(w, f, ctxRef) ==
    Return([w EXCEPT !.fns[f].context = ctxRef,
                     !.fns[f].given = IF ctxRef = 0 THEN EmptyObj ELSE w.ctxs[ctxRef]],
           f)

\* create(fn, {...}) on the function just evaluated (outcome l) and a new
\* object literal o.
CreateWith(l, o) == create(NewObj(l.w, o), l.ret, NewRef(l.w))

minLen(w, n) ==
    CreateWith(Lambda(w, [name |-> "minLen", n |-> n]),
               Put(Put(EmptyObj, "description", <<"Must have a minimum length of: ", n>>),
                   "minimumLength", n))

\* isPort(): v > 0 && v <= 65535
isPort(w) ==
    CreateWith(Lambda(w, [name |-> "isPort"]),
               Put(Put(Put(EmptyObj, "description", <<"Port must be between 1 and 65535">>),
                       "min", 1),
                   "max", 65535))

\* len(n) and maxLen(n) (array-like.ts)
ArrayLikeAssert(w, name, n) ==
    CreateWith(Lambda(w, [name |-> name, n |-> n]),
               IF name = "len"
               THEN Put(Put(EmptyObj, "description", <<"Must have a length of: ", n>>),
                        "allowedLength", n)
               ELSE Put(Put(EmptyObj, "description", <<"Must have a maximum length of: ", n>>),
                        "maximumLength", n))

\* prefix(s), suffix(s), substring(s), options(opts) and matches(rx)
\* (string.ts): the context has the description and the argument under the
\* name of the assertion; for matches the argument is the reference of a
\* RegExp object and the context has its source under regex.
StringAssert(w, name, arg) ==
    CreateWith(Lambda(w, [name |-> name, arg |-> arg]),
               IF name = "matches"
               THEN Put(Put(EmptyObj, "description", <<"Must match: ", w.ctxs[arg].source>>),
                        "regex", w.ctxs[arg].source)
               ELSE Put(Put(EmptyObj, "description",
                            <<CASE name = "prefix" -> "Must have a prefix of: "
                                [] name = "suffix" -> "Must have a suffix of: "
                                [] name = "substring" -> "Must contain: "
                                [] name = "options" -> "Must be one of: ",
                              arg>>),
                        name, arg))

\* isURL(protocols)
isURL(w, protocols) ==
    CreateWith(Lambda(w, [name |-> "isURL", protocols |-> protocols]),
               Put(Put(EmptyObj, "description",
                       IF protocols # Undefined /\ Len(protocols.v) > 0
                       THEN <<"Must be a valid URL", " and use one of the following protocols: ",
                              protocols.v>>
                       ELSE <<"Must be a valid URL">>),
                   "acceptedProtocols", protocols))

\* new URL(v).protocol for the strings of the model alphabet, <<>> when the
\* constructor throws: v must start with a scheme, a letter followed by
\* letters and digits up to the first ':'.  The schemes of the model are
\* not the special ones (http, ws, ftp, file), which also need a host.
UrlProtocol(v) ==
    IF \E i \in 2..Len(v) :
          /\ v[i] = ":"
          /\ \A j \in 1..(i - 1) : v[j] # ":"
          /\ LowerChar(v[1]) \in {LowerChars[k] : k \in 1..26}
          /\ \A j \in 2..(i - 1) :
                LowerChar(v[j]) \in {LowerChars[k] : k \in 1..26} \/ IsDigit(v[j])
    THEN ToLowerCase(SubSeq(v, 1, CHOOSE i \in 2..Len(v) :
                                     v[i] = ":" /\ \A j \in 1..(i - 1) : v[j] # ":"))
    ELSE <<>>

\* The bodies of the predicates that keep no state: what the function
\* returns for a value.
Pred(body, x) ==
    CASE body.name = "minLen" -> Len(x.v) >= body.n
      [] body.name = "len" -> Len(x.v) = body.n
      [] body.name = "maxLen" -> Len(x.v) <= body.n
      [] body.name = "prefix" ->
            Len(x.v) >= Len(body.arg) /\ SubSeq(x.v, 1, Len(body.arg)) = body.arg
      [] body.name = "suffix" ->
            /\ Len(x.v) >= Len(body.arg)
            /\ SubSeq(x.v, Len(x.v) - Len(body.arg) + 1, Len(x.v)) = body.arg
      [] body.name = "substring" ->
            \E i \in 0..Len(x.v) :
                /\ i + Len(body.arg) <= Len(x.v)
                /\ SubSeq(x.v, i + 1, i + Len(body.arg)) = body.arg
      [] body.name = "options" -> \E i \in 1..Len(body.arg) : body.arg[i] = x.v
      [] body.name = "isURL" ->
            /\ UrlProtocol(x.v) # <<>>
            /\ \/ body.protocols = Undefined
               \/ Len(body.protocols.v) = 0
               \/ \E i \in 1..Len(body.protocols.v) :
                     body.protocols.v[i] = UrlProtocol(x.v)
      [] body.name = "isPort" -> Tenths(x) > 0 /\ Tenths(x) <= 65535 * 10
      [] body.name = "equals" -> x = body.to

\* rx.test(s) for a RegExp object whose pattern is a string of plain
\* characters.  Without the g flag the search starts at 0 and lastIndex is
\* left alone; with it the search starts at lastIndex, which becomes the
\* end of the match, or 0 when there is none.
RegExpTest(w, r, s) ==
    LET rx == w.ctxs[r]
        from == IF rx.global THEN rx.lastIndex ELSE 0
        hits == {i \in from..Len(s) :
                    /\ i + Len(rx.source) <= Len(s)
                    /\ SubSeq(s, i + 1, i + Len(rx.source)) = rx.source}
        first == CHOOSE i \in hits : \A j \in hits : i <= j
    IN IF hits = {}
       THEN Return(IF rx.global THEN [w EXCEPT !.ctxs[r].lastIndex = 0] ELSE w, FALSE)
       ELSE Return(IF rx.global
                   THEN [w EXCEPT !.ctxs[r].lastIndex = first + Len(rx.source)]
                   ELSE w,
                   TRUE)

\* fn(value) for the assertion f: the predicate of matches calls rx.test,
\* the others compute their result from the value alone.
Invoke(w, f, x) ==
    IF w.fns[f].body.name = "matches" THEN RegExpTest(w, w.fns[f].body.arg, x.v)
    ELSE Return(w, Pred(w.fns[f].body, x))

----------------------------------------------------------------------------
(* Functions the caller passes to transform and convert.  A body names     *)
(* what the function computes; Call applies it and gives an outcome, since *)
(* a callback may throw.                                                   *)

RECURSIVE NatToStr(_)
NatToStr(n) ==
    IF n < 10 THEN <<Digits[n + 1]>>
    ELSE Append(NatToStr(n \div 10), Digits[(n % 10) + 1])

\* String(n) for an integer n
NumToStr(n) == IF n < 0 THEN <<"-">> \o NatToStr(0 - n) ELSE NatToStr(n)

\* String(x) for a number x of the model
NumberString(x) ==
    IF Tenths(x) % 10 = 0 THEN NumToStr(x.v)
    ELSE LET a == IF Tenths(x) < 0 THEN 0 - Tenths(x) ELSE Tenths(x) IN
         (IF Tenths(x) < 0 THEN <<"-">> ELSE <<>>)
             \o NatToStr(a \div 10) \o <<".">> \o NatToStr(a % 10)

RECURSIVE Call(_, _, _)
Call(w, body, x) ==
    CASE body.name = "trim" -> Return(w, Str(Trim(x.v)))
      [] body.name = "double" -> Return(w, FromTenths(Tenths(x) * 2))
      [] body.name = "length" -> Return(w, Num(Len(x.v)))
      [] body.name = "String" -> Return(w, Str(NumberString(x)))
      [] body.name = "toNumber" -> toNumber(w, x.v)
      [] body.name = "boom" -> BaseError(w, "Error", 0)
      [] body.name = "reverse" ->
            Return([w EXCEPT !.ctxs[x.r].items =
                        [i \in 1..Len(@) |-> @[Len(@) + 1 - i]]],
                   x)
      [] body.name = "compose" ->
            LET r == Call(w, body.f, x) IN
            IF r.ok THEN Call(r.w, body.g, r.ret) ELSE r

\* The parameter type of a body: TypeScript rejects a call on a pipeline of
\* another value type.
RECURSIVE Accepts(_, _)
Accepts(body, x) ==
    CASE body.name \in {"trim", "length", "toNumber"} -> x.t = "string"
      [] body.name \in {"double", "String", "isPort"} -> x.t = "number"
      [] body.name \in {"minLen", "len", "maxLen"} -> x.t \in {"string", "array"}
      [] body.name \in {"prefix", "suffix", "substring", "options", "matches", "isURL"} ->
            x.t = "string"
      [] body.name = "equals" -> x.t = body.to.t
      [] body.name = "boom" -> TRUE
      [] body.name = "reverse" -> x.t = "arrayref"
      [] body.name = "compose" -> Accepts(body.f, x)

----------------------------------------------------------------------------
(* The pipeline (core.ts) *)

createEnvy(w, key, value) ==
    Return([w EXCEPT !.pipes = Append(@, [key |-> key, value |-> value])],
           Len(w.pipes) + 1)

\* `this._value = <r>; return this`, where r is the outcome of the callback:
\* nothing is assigned when the callback threw.
StoreValue(r, p) ==
    IF r.ok THEN Return([r.w EXCEPT !.pipes[p].value = r.ret], p)
    ELSE r

\* transform that returns the pipeline without applying the function
transform_unapplied(w, p, body) == StoreValue(Return(w, w.pipes[p].value), p)

\* transform that clears the value before it calls the function
transform_clearsFirst(w, p, body) ==
    StoreValue(Call([w EXCEPT !.pipes[p].value = Undefined], body, w.pipes[p].value), p)

\* EnvyPrototype.transform
transform(w, p, body) == StoreValue(Call(w, body, w.pipes[p].value), p)

\* assert that throws only when a message is given
assert_throwsOnlyWithMessage(w, p, f, msg) ==
    IF Pred(w.fns[f].body, w.pipes[p].value) \/ Falsy(msg) THEN Return(w, p)
    ELSE LET own == w.fns[f].context # 0
             w1 == IF own THEN w ELSE NewObj(w, EmptyObj)
             ctx == IF own THEN w.fns[f].context ELSE NewRef(w)
             w2 == [w1 EXCEPT !.ctxs[ctx] = Put(@, "userMessage", msg)]
         IN AssertError(w2, w.pipes[p].key, w.pipes[p].value, ctx)

\* EnvyPrototype.assert: ctx is fn.context itself when the function has one,
\* a new empty object otherwise.
Asserted(i, p, f, msg) ==
    IF i.ret THEN Return(i.w, p)
    ELSE LET own == i.w.fns[f].context # 0
             w1 == IF own THEN i.w ELSE NewObj(i.w, EmptyObj)
             ctx == IF own THEN i.w.fns[f].context ELSE NewRef(i.w)
             w2 == IF Falsy(msg) THEN w1
                   ELSE [w1 EXCEPT !.ctxs[ctx] = Put(@, "userMessage", msg)]
         IN AssertError(w2, i.w.pipes[p].key, i.w.pipes[p].value, ctx)

\* assert that writes the message into the context before it calls the
\* predicate
assert_messageFirst(w, p, f, msg) ==
    Asserted(Invoke(IF w.fns[f].context # 0 /\ ~Falsy(msg)
                    THEN [w EXCEPT !.ctxs[w.fns[f].context] = Put(@, "userMessage", msg)]
                    ELSE w,
                    f, w.pipes[p].value),
             p, f, msg)

assert(w, p, f, msg) == Asserted(Invoke(w, f, w.pipes[p].value), p, f, msg)

\* `createEnvy(key, <r>)`, where r is the outcome of a conversion: no
\* pipeline is created when the conversion threw.
WrapValue(r, key) ==
    IF r.ok THEN createEnvy(r.w, key, r.ret)
    ELSE r

\* convert that wraps the value as it is, without applying the function
convert_unapplied(w, p, body) ==
    WrapValue(Return(w, w.pipes[p].value), w.pipes[p].key)

\* convert that gives the new pipeline no key
convert_dropsKey(w, p, body) ==
    WrapValue(Call(w, body, w.pipes[p].value), <<>>)

\* EnvyPrototype.convert
convert(w, p, body) ==
    WrapValue(Call(w, body, w.pipes[p].value), w.pipes[p].key)

\* narrow that leaves the message out of the context
narrow_ignoresMessage(w, p, body, msg) ==
    IF Pred(body, w.pipes[p].value) THEN Return(w, p)
    ELSE AssertError(NewObj(w, Put(EmptyObj, "description", <<"Failed type-narrowing">>)),
                     w.pipes[p].key, w.pipes[p].value, NewRef(w))

\* EnvyPrototype.narrow: the type guard is a plain function, the context is
\* a new object literal.
narrow(w, p, body, msg) ==
    IF Pred(body, w.pipes[p].value) THEN Return(w, p)
    ELSE LET w1 == NewObj(w, Put(EmptyObj, "description", <<"Failed type-narrowing">>))
             ctx == NewRef(w)
             w2 == IF Falsy(msg) THEN w1
                   ELSE [w1 EXCEPT !.ctxs[ctx] = Put(@, "userMessage", msg)]
         IN AssertError(w2, w.pipes[p].key, w.pipes[p].value, ctx)

\* build that takes the value out of the pipeline
build_consumes(w, p) ==
    Return([w EXCEPT !.pipes[p].value = Undefined], w.pipes[p].value)

\* EnvyPrototype.build
build(w, p) == Return(w, w.pipes[p].value)

----------------------------------------------------------------------------
(* Entry constructors (core.ts) *)

\* process.env[key]
Lookup(e, key) == IF key \in DOMAIN e THEN e[key] ELSE Undefined

\* Objects no reference reaches once the constructor has returned or thrown
\* are not part of the state: the minLen closure always, its context unless
\* the thrown error holds it, the new pipeline when the constructor threw.
Release(w, r) ==
    IF r.ok THEN [r EXCEPT !.w.fns = w.fns, !.w.ctxs = w.ctxs]
    ELSE [r EXCEPT !.w.fns = w.fns, !.w.pipes = w.pipes]

\* createEnvy(key, s).transform(s => s.trim()).assert(minLen(1))
\* <c>.transform(s => s.trim()), c the outcome of createEnvy
TrimValue(c) == transform(c.w, c.ret, [name |-> "trim"])

\* <pipeline p>.assert(<m>), m the outcome of minLen(1)
AssertWith(m, p) == assert(m.w, p, m.ret, Undefined)

\* <t>.assert(minLen(1)), t the outcome of the transform
AssertNonEmpty(t) == AssertWith(minLen(t.w, 1), t.ret)

\* The chain of required and optional without the trim
TrimmedNonEmpty_untrimmed(w, key, s) ==
    Release(w, AssertNonEmpty(createEnvy(w, key, s)))

TrimmedNonEmpty(w, key, s) ==
    Release(w, AssertNonEmpty(TrimValue(createEnvy(w, key, s))))

\* required with a truthiness test in place of the undefined test
required_falsyIsMissing(w, e, key) ==
    LET raw == Lookup(e, key) IN
    IF Falsy(raw) THEN MissingError(w, key)
    ELSE TrimmedNonEmpty(w, key, raw)

\* required that leaves the missing value to the operations after it
required_unchecked(w, e, key) ==
    LET raw == Lookup(e, key) IN
    IF raw = Undefined THEN createEnvy(w, key, raw)
    ELSE TrimmedNonEmpty(w, key, raw)

required(w, e, key) ==
    LET raw == Lookup(e, key) IN
    IF raw = Undefined THEN MissingError(w, key)
    ELSE TrimmedNonEmpty(w, key, raw)

\* optional that takes the default only when the variable is undefined
optional_undefinedOnly(w, e, key, defaultValue) ==
    LET raw == Lookup(e, key)
        value == IF raw = Undefined THEN defaultValue ELSE raw
    IN TrimmedNonEmpty(w, key, value)

optional(w, e, key, defaultValue) ==
    LET raw == Lookup(e, key)
        value == IF Falsy(raw) THEN defaultValue ELSE raw
    IN TrimmedNonEmpty(w, key, value)

\* number with a truthiness test of the default
number_falsyDefaultMissing(w, e, key, defaultValue) ==
    LET raw == Lookup(e, key) IN
    IF raw = Undefined
    THEN IF Falsy(defaultValue) THEN MissingError(w, key)
         ELSE createEnvy(w, key, defaultValue)
    ELSE WrapValue(toNumber(w, raw.v), key)

\* number that hands on the raw string
number_unconverted(w, e, key, defaultValue) ==
    LET raw == Lookup(e, key) IN
    IF raw = Undefined
    THEN IF defaultValue = Undefined THEN MissingError(w, key)
         ELSE createEnvy(w, key, defaultValue)
    ELSE createEnvy(w, key, raw)

number(w, e, key, defaultValue) ==
    LET raw == Lookup(e, key) IN
    IF raw = Undefined
    THEN IF defaultValue = Undefined THEN MissingError(w, key)
         ELSE createEnvy(w, key, defaultValue)
    ELSE WrapValue(toNumber(w, raw.v), key)

bool(w, e, key, defaultValue) ==
    LET raw == Lookup(e, key) IN
    IF raw = Undefined
    THEN IF defaultValue = Undefined THEN MissingError(w, key)
         ELSE createEnvy(w, key, defaultValue)
    ELSE WrapValue(toBool(w, raw.v), key)

array(w, e, key, defaultValue) ==
    LET raw == Lookup(e, key) IN
    IF raw = Undefined
    THEN IF defaultValue = Undefined THEN MissingError(w, key)
         ELSE createEnvy(w, key, defaultValue)
    ELSE WrapValue(toArray(w, raw.v, <<",">>), key)

\* The dispatch of a constructor call by name.
Construct(w, e, op, key, defaultValue) ==
    CASE op = "required" -> required(w, e, key)
      [] op = "optional" -> optional(w, e, key, defaultValue)
      [] op = "number" -> number(w, e, key, defaultValue)
      [] op = "bool" -> bool(w, e, key, defaultValue)
      [] op = "array" -> array(w, e, key, defaultValue)

----------------------------------------------------------------------------
(* Prefix namespace (withPrefix) *)

\* normalizedPrefix that appends the separator unconditionally
normalizedPrefix_alwaysAppend(prefix) == prefix \o <<"_">>

normalizedPrefix(prefix) ==
    IF EndsWith(prefix, "_") THEN prefix ELSE prefix \o <<"_">>

\* The key a namespace method passes on: `${normalizedPrefix}${key}`
PrefixedKey(ns, key) == ns.normalizedPrefix \o key

\* withPrefix(prefix): the returned object closes over normalizedPrefix.
withPrefix(prefix) ==
    [prefix |-> prefix, normalizedPrefix |-> normalizedPrefix(prefix)]

\* ns.withPrefix(nestedPrefix)
nestedWithPrefix(ns, nestedPrefix) ==
    withPrefix(ns.normalizedPrefix \o nestedPrefix)

----------------------------------------------------------------------------
(* Inputs *)

KeyP == <<"P">>
KeyQ == <<"Q">>
KeyPort == <<"P", "O", "R", "T">>
EntryKeys == {KeyP}

Prefixes == {<<>>, <<"A">>, <<"A", "_">>, <<"A", "_", "_">>}

\* The variables an environment of the model may define.
EnvKeys == {KeyP, <<"A", "_", "P">>, <<"A", "_", "A", "_", "P">>}

RawValues ==
    { <<>>, <<" ">>, <<"a">>, <<" ", "a", " ">>, <<"1">>, <<"O", "N">>,
      <<"a", ",", " ", "b">> }

StringDefaults == {Str(<<>>), Str(<<"d">>), Str(<<" ", "d", " ">>)}
NumberDefaults == {Undefined, Num(0), Num(3000)}
BoolDefaults == {Undefined, Bool(FALSE), Bool(TRUE)}
ArrayDefaults == {Undefined, Arr(<<>>), Arr(<< <<"*">> >>)}

\* Environments with at most one variable set.
Environments ==
    {[k \in {} |-> Undefined]} \cup
    UNION {{[x \in {k} |-> Str(raw)] : raw \in RawValues} : k \in EnvKeys}

----------------------------------------------------------------------------
(* State machine *)

Idle == [op |-> "none", n |-> 0]

\* No chained expression is under evaluation.
NoChain == [status |-> "none"]

Empty ==
    /\ pipes = <<>>
    /\ fns = <<>>
    /\ ctxs = <<>>
    /\ errs = <<>>
    /\ nss = <<>>
    /\ last = Idle

SetWorld(w) ==
    /\ pipes' = w.pipes
    /\ fns' = w.fns
    /\ ctxs' = w.ctxs
    /\ errs' = w.errs

\* A call of an entry constructor, directly (ns = 0) or through the
\* namespace object ns.
EffectiveKey(ns, key) == IF ns = 0 THEN key ELSE PrefixedKey(nss[ns], key)

\* What the client remembers of the call before the last one.
Summary(l) == [x \in (DOMAIN l) \ {"pre", "prev"} |-> l[x]]

\* The call has outcome r: the heap is as the call left it and the client
\* sees what it returned or threw.  The record also keeps the heap before
\* the call (pre), the number of the call (n) and the call before it (prev).
Outcome(r, call) ==
    /\ SetWorld(r.w)
    /\ last' = [x \in (DOMAIN call) \cup {"ok", "ret", "pre", "n", "prev"} |->
                   CASE x = "ok" -> r.ok
                     [] x = "ret" -> r.ret
                     [] x = "pre" -> World
                     [] x = "n" -> last.n + 1
                     [] x = "prev" -> Summary(last)
                     [] OTHER -> call[x]]

Enter(op, ns, key, defaultValue) ==
    /\ Outcome(Construct(World, env, op, EffectiveKey(ns, key), defaultValue),
               [op |-> op, ns |-> ns, arg |-> key, key |-> EffectiveKey(ns, key),
                def |-> defaultValue])
    /\ UNCHANGED <<env, nss, chain>>

Required(k) == Enter("required", 0, k, Undefined)
Optional(k, d) == Enter("optional", 0, k, d)
Number(k, d) == Enter("number", 0, k, d)
Boolean(k, d) == Enter("bool", 0, k, d)
Array(k, d) == Enter("array", 0, k, d)

NsRequired(n, k) == Enter("required", n, k, Undefined)
NsOptional(n, k, d) == Enter("optional", n, k, d)
NsNumber(n, k, d) == Enter("number", n, k, d)
NsBoolean(n, k, d) == Enter("bool", n, k, d)
NsArray(n, k, d) == Enter("array", n, k, d)

WithPrefix(p) ==
    /\ Len(nss) < MaxNs
    /\ nss' = Append(nss, withPrefix(p))
    /\ last' = [op |-> "withPrefix", ok |-> TRUE, ret |-> Len(nss) + 1,
                n |-> last.n + 1, ns |-> 0, arg |-> p]
    /\ UNCHANGED <<env, pipes, fns, ctxs, errs, chain>>

NsWithPrefix(n, p) ==
    /\ Len(nss) < MaxNs
    /\ nss' = Append(nss, nestedWithPrefix(nss[n], p))
    /\ last' = [op |-> "withPrefix", ok |-> TRUE, ret |-> Len(nss) + 1,
                n |-> last.n + 1, ns |-> n, arg |-> p]
    /\ UNCHANGED <<env, pipes, fns, ctxs, errs, chain>>

----------------------------------------------------------------------------
(* Entry specification: any environment with at most one variable set,     *)
(* namespaces created by withPrefix, and one call of an entry constructor, *)
(* directly or through a namespace.                                        *)

InitEntry == Empty /\ chain = NoChain /\ env \in Environments

\* No constructor has been called yet.
CallRoom == pipes = <<>> /\ errs = <<>>

NextEntry ==
    \/ \E k \in EntryKeys : CallRoom /\ Required(k)
    \/ \E k \in EntryKeys, d \in StringDefaults : CallRoom /\ Optional(k, d)
    \/ \E k \in EntryKeys, d \in NumberDefaults : CallRoom /\ Number(k, d)
    \/ \E k \in EntryKeys, d \in BoolDefaults : CallRoom /\ Boolean(k, d)
    \/ \E k \in EntryKeys, d \in ArrayDefaults : CallRoom /\ Array(k, d)
    \/ \E p \in Prefixes : WithPrefix(p)
    \/ \E n \in 1..Len(nss), p \in Prefixes : NsWithPrefix(n, p)
    \/ \E n \in 1..Len(nss), k \in EntryKeys : CallRoom /\ NsRequired(n, k)
    \/ \E n \in 1..Len(nss), k \in EntryKeys, d \in StringDefaults :
            CallRoom /\ NsOptional(n, k, d)
    \/ \E n \in 1..Len(nss), k \in EntryKeys, d \in NumberDefaults :
            CallRoom /\ NsNumber(n, k, d)
    \/ \E n \in 1..Len(nss), k \in EntryKeys, d \in BoolDefaults :
            CallRoom /\ NsBoolean(n, k, d)
    \/ \E n \in 1..Len(nss), k \in EntryKeys, d \in ArrayDefaults :
            CallRoom /\ NsArray(n, k, d)

SpecEntry == InitEntry /\ [][NextEntry]_vars

----------------------------------------------------------------------------
(* The client of the chain specifications: it holds every reference it was *)
(* given, catches what is thrown and makes up to MaxCalls calls.           *)

\* process.env of the chain specifications
ChainKeys == {KeyP, KeyQ}
ChainEnv == [k \in ChainKeys |-> IF k = KeyP THEN Str(<<"1">>) ELSE Str(<<"2">>)]

\* n => n == 1 and n => n == 2
IsOne == [name |-> "equals", to |-> Num(1)]
IsTwo == [name |-> "equals", to |-> Num(2)]
Predicates == {IsOne, IsTwo}

\* Context literals the caller gives to create; FnCtx allows any field.
DescOnly == [description |-> <<"d">>]
DescAndKey == [description |-> <<"d">>, key |-> <<"K">>, extra |-> Num(7)]
UserContexts == {DescOnly, DescAndKey}

Messages == {Undefined, Str(<<"m">>)}

CallsLeft == last.n < MaxCalls

\* create(<function expression>, {...})
NewAssertion(body, o) ==
    /\ Outcome(CreateWith(Lambda(World, body), o), [op |-> "create", body |-> body])
    /\ UNCHANGED <<env, nss, chain>>

\* create(f, {...}) on a function f the client already holds.
CreateAgain(f, o) ==
    /\ Outcome(create(NewObj(World, o), f, NewRef(World)),
               [op |-> "create", body |-> fns[f].body])
    /\ UNCHANGED <<env, nss, chain>>

\* A function expression used as an assertion without create.
NewLambda(body) ==
    /\ Outcome(Lambda(World, body), [op |-> "lambda", body |-> body])
    /\ UNCHANGED <<env, nss, chain>>

Transform(p, body) ==
    /\ Accepts(body, pipes[p].value)
    /\ Outcome(transform(World, p, body), [op |-> "transform", p |-> p, body |-> body])
    /\ UNCHANGED <<env, nss, chain>>

AssertCall(p, f, msg) ==
    /\ Accepts(fns[f].body, pipes[p].value)
    /\ Outcome(assert(World, p, f, msg), [op |-> "assert", p |-> p, f |-> f, msg |-> msg])
    /\ UNCHANGED <<env, nss, chain>>

Convert(p, body) ==
    /\ Accepts(body, pipes[p].value)
    /\ Outcome(convert(World, p, body), [op |-> "convert", p |-> p, body |-> body])
    /\ UNCHANGED <<env, nss, chain>>

Narrow(p, body, msg) ==
    /\ Accepts(body, pipes[p].value)
    /\ Outcome(narrow(World, p, body, msg),
               [op |-> "narrow", p |-> p, body |-> body, msg |-> msg])
    /\ UNCHANGED <<env, nss, chain>>

Build(p) ==
    /\ Outcome(build(World, p), [op |-> "build", p |-> p])
    /\ UNCHANGED <<env, nss, chain>>

InitChain == Empty /\ chain = NoChain /\ env = ChainEnv

----------------------------------------------------------------------------
(* Assertion specification: number pipelines, assertions made by create or *)
(* given as bare functions, and assert calls with and without a message.   *)

NextAssert ==
    \/ \E k \in ChainKeys : CallsLeft /\ Number(k, Undefined)
    \/ \E o \in UserContexts : CallsLeft /\ NewAssertion(IsOne, o)
    \/ \E b \in Predicates : CallsLeft /\ NewLambda(b)
    \/ \E f \in 1..Len(fns) : CallsLeft /\ CreateAgain(f, DescAndKey)
    \/ \E p \in 1..Len(pipes), f \in 1..Len(fns), m \in Messages :
            CallsLeft /\ AssertCall(p, f, m)
    \/ \E p \in 1..Len(pipes) : CallsLeft /\ Transform(p, [name |-> "double"])
    \/ \E p \in 1..Len(pipes), m \in Messages \cup {Str(<<>>)} :
            CallsLeft /\ Narrow(p, IsOne, m)

SpecAssert == InitChain /\ [][NextAssert]_vars

----------------------------------------------------------------------------
(* Flow specification: string pipelines made by required, conversions with *)
(* plain and composed functions, one of which throws, transform and build. *)

ToNumber == [name |-> "toNumber"]
Double == [name |-> "double"]
NumberToString == [name |-> "String"]
Boom == [name |-> "boom"]

\* v => g(f(v))
Compose(f, g) == [name |-> "compose", f |-> f, g |-> g]

FlowFns == {ToNumber, Double, NumberToString, Boom}
Composites ==
    {Compose(ToNumber, Double), Compose(Double, NumberToString), Compose(NumberToString, ToNumber)}

NextFlow ==
    \/ \E k \in ChainKeys : CallsLeft /\ Required(k)
    \/ \E p \in 1..Len(pipes), b \in FlowFns \cup Composites :
            CallsLeft /\ Convert(p, b)
    \/ \E p \in 1..Len(pipes) : CallsLeft /\ Transform(p, Double)
    \/ \E p \in 1..Len(pipes) : CallsLeft /\ Build(p)

SpecFlow == InitChain /\ [][NextFlow]_vars

----------------------------------------------------------------------------
(* Chain specification: one chained expression                             *)
(*     <entry>(key).<op>(fn). ... .<op>(fn).build()                        *)
(* evaluated left to right.  An operation is called on what the call       *)
(* before it returned; when a call throws, the exception leaves the        *)
(* expression and the calls to its right are never made.                   *)

MinLenOne == [name |-> "minLen", n |-> 1]

\* .transform(fn), .convert(fn) and .assert(fn) with the functions of the
\* model
StepKinds ==
    {[op |-> "transform", fn |-> f] : f \in {[name |-> "trim"], Double, Boom}}
    \cup {[op |-> "convert", fn |-> f] : f \in {ToNumber, NumberToString}}
    \cup {[op |-> "assert", fn |-> f] : f \in {IsOne, MinLenOne, [name |-> "isPort"]}}
    \cup {[op |-> "narrow", fn |-> IsOne]}

ChainEntries ==
    {[op |-> "required", key |-> KeyP, def |-> Undefined],
     [op |-> "number", key |-> KeyP, def |-> Undefined],
     [op |-> "number", key |-> KeyPort, def |-> Undefined],
     [op |-> "required", key |-> PrefixedKey(withPrefix(<<"A">>), KeyP), def |-> Undefined]}

\* process.env.P is unset, a numeral, or not a numeral; or process.env.PORT
\* is a port, a number that is too large, or a number that is not whole; or
\* process.env.A_P is a numeral
ChainEnvs ==
    {[k \in {} |-> Undefined]} \cup
    {[k \in {<<"A", "_", "P">>} |-> Str(<<"2">>)]} \cup
    {[k \in {KeyP} |-> Str(raw)] : raw \in {<<"1">>, <<"2">>, <<"x">>}} \cup
    {[k \in {KeyPort} |-> Str(raw)] :
        raw \in {<<"3", "0", "0", "0">>, <<"9", "9", "9", "9", "9">>,
                 <<"8", "0", ".", "5">>}}

\* The static types TypeScript gives to the pipeline along the chain.
EntryType(e) == IF e.op = "required" THEN "string" ELSE "number"

OutType(st, t) ==
    IF st.op # "convert" THEN t
    ELSE CASE st.fn.name = "toNumber" -> "number"
           [] st.fn.name = "String" -> "string"
           [] OTHER -> t

RECURSIVE WellTyped(_, _)
WellTyped(steps, t) ==
    IF steps = <<>> THEN TRUE
    ELSE /\ Accepts(Head(steps).fn, [t |-> t])
         /\ WellTyped(Tail(steps), OutType(Head(steps), t))

StepSeqs == UNION {[1..n -> StepKinds] : n \in 0..MaxSteps}

\* The call of one chained operation on the pipeline p.
CallOp(w, p, st) ==
    CASE st.op = "transform" -> transform(w, p, st.fn)
      [] st.op = "convert" -> convert(w, p, st.fn)
      [] st.op = "assert" ->
            IF st.fn.name = "isPort" THEN AssertWith(isPort(w), p)
            ELSE AssertWith(Lambda(w, st.fn), p)
      [] st.op = "narrow" -> narrow(w, p, st.fn, Undefined)

\* The chain after a call with outcome r; step is the operation called (0
\* for the entry constructor and for build, which take no function), arg
\* the value its function was invoked with.
Advance(r, step, arg, done) ==
    chain' = [chain EXCEPT
                !.status = IF ~r.ok THEN "thrown"
                           ELSE IF done THEN "done" ELSE "running",
                !.head = IF r.ok /\ ~done THEN r.ret ELSE @,
                !.pc = step,
                !.invoked = IF step = 0 \/ done THEN @
                            ELSE Append(@, [step |-> step, arg |-> arg])]

CallEntry ==
    /\ chain.status = "ready"
    /\ Outcome(Construct(World, env, chain.entry.op, chain.entry.key, chain.entry.def),
               [op |-> chain.entry.op, ns |-> 0, arg |-> chain.entry.key,
                key |-> chain.entry.key, def |-> chain.entry.def])
    /\ Advance([ok |-> last'.ok, ret |-> last'.ret], 0, Undefined, FALSE)
    /\ UNCHANGED <<env, nss>>

CallStep ==
    /\ chain.status = "running"
    /\ chain.pc < Len(chain.steps)
    /\ Accepts(chain.steps[chain.pc + 1].fn, pipes[chain.head].value)
    /\ Outcome(CallOp(World, chain.head, chain.steps[chain.pc + 1]),
               [op |-> chain.steps[chain.pc + 1].op, p |-> chain.head,
                body |-> chain.steps[chain.pc + 1].fn])
    /\ Advance([ok |-> last'.ok, ret |-> last'.ret], chain.pc + 1,
               pipes[chain.head].value, FALSE)
    /\ UNCHANGED <<env, nss>>

CallBuild ==
    /\ chain.status = "running"
    /\ chain.pc = Len(chain.steps)
    /\ Outcome(build(World, chain.head), [op |-> "build", p |-> chain.head])
    /\ Advance([ok |-> TRUE, ret |-> 0], chain.pc, Undefined, TRUE)
    /\ UNCHANGED <<env, nss>>

InitPlan ==
    /\ Empty
    /\ env \in ChainEnvs
    /\ \E e \in ChainEntries, s \in StepSeqs :
          /\ WellTyped(s, EntryType(e))
          /\ chain = [status |-> "ready", entry |-> e, steps |-> s, pc |-> 0,
                      head |-> 0, invoked |-> <<>>]

NextPlan == CallEntry \/ CallStep \/ CallBuild

SpecPlan == InitPlan /\ [][NextPlan]_vars

----------------------------------------------------------------------------
(* Converter specification: process.env.P holds one string of ConvInputs   *)
(* and the client calls a scalar converter on it, or the entry constructor *)
(* that uses the converter, once.                                          *)

ConvInputs ==
    { <<>>, <<" ">>, <<" ", "\t">>,
      <<"4", "2">>, <<" ", "4", "2", " ">>, <<"-", "5">>, <<"+", "7">>,
      <<"1", ".", "5">>, <<"0", "7">>, <<"1", "x">>, <<"4", " ", "2">>, <<"-">>,
      <<"0">>, <<"1">>, <<"2">>, <<" ", "1", " ">>,
      <<"o", "n">>, <<"O", "N">>, <<" ", "O", "n", " ">>, <<"o", "f", "f">>,
      <<"y", "e", "s">>, <<"Y", "e", "S">>, <<"n", "o">>, <<"N", "O", " ">>,
      <<"t", "r", "u", "e">>, <<"T", "R", "U", "E">>, <<"t", "R", "u", "E">>,
      <<"f", "a", "l", "s", "e">>, <<"F", "a", "l", "s", "e">>,
      <<"t", "r", "u">>, <<"o", " ", "n">>, <<"o", "n", "n">>, <<"y">>,
      <<"a">>, <<"a", ",", "b">>, <<"a", ",", " ", "b", " ", ",", "c">>,
      <<"a", ",">>, <<",">>, <<",", ",">>, <<",", ",", ",">>, <<",", "a">>,
      <<"a", ";", "b">>, <<" ", "a", " ">>, <<"a", " ", "b">>, <<"a", ",", ",", "b">> }

\* Separators given to toArray: the default, another character, a string of
\* two characters, and the empty string.
Separators == {<<",">>, <<";">>, <<",", ",">>, <<>>}

\* toNumber(s), toBool(s) or toArray(s, sep) called by the client.
CallConverter(name, sep) ==
    /\ Outcome(CASE name = "toNumber" -> toNumber(World, env[KeyP].v)
                 [] name = "toBool" -> toBool(World, env[KeyP].v)
                 [] name = "toArray" -> toArray(World, env[KeyP].v, sep),
               [op |-> name, arg |-> env[KeyP].v, sep |-> sep])
    /\ UNCHANGED <<env, nss, chain>>

InitConv ==
    /\ Empty
    /\ chain = NoChain
    /\ env \in {[k \in {KeyP} |-> Str(s)] : s \in ConvInputs}

NextConv ==
    \/ last.n = 0 /\ CallConverter("toNumber", <<",">>)
    \/ last.n = 0 /\ CallConverter("toBool", <<",">>)
    \/ \E sep \in Separators : last.n = 0 /\ CallConverter("toArray", sep)
    \/ last.n = 0 /\ Number(KeyP, Undefined)
    \/ last.n = 0 /\ Boolean(KeyP, Undefined)
    \/ last.n = 0 /\ Array(KeyP, Undefined)

SpecConv == InitConv /\ [][NextConv]_vars

----------------------------------------------------------------------------
(* Predicate specification: the client has made one built-in assertion and *)
(* calls it as a function, on up to MaxCalls values of its parameter type. *)

\* The expression that makes the assertion b, evaluated in the heap w; the
\* argument of matches is a RegExp literal, a new object.
Instance(w, b) ==
    CASE b.name \in {"len", "maxLen"} -> ArrayLikeAssert(w, b.name, b.arg)
      [] b.name = "minLen" -> minLen(w, b.arg)
      [] b.name \in {"prefix", "suffix", "substring", "options"} ->
            StringAssert(w, b.name, b.arg)
      [] b.name = "matches" ->
            StringAssert(NewObj(w, [source |-> b.arg, global |-> b.global, lastIndex |-> 0]),
                         "matches", NewRef(w))
      [] b.name = "isURL" -> isURL(w, b.arg)
      [] b.name = "isPort" -> isPort(w)

\* <assertion f>(v)
Apply(f, v) ==
    /\ Accepts(fns[f].body, v)
    /\ Outcome(Invoke(World, f, v), [op |-> "apply", f |-> f, arg |-> v])
    /\ UNCHANGED <<env, nss, chain>>

InitPred ==
    /\ env = ChainEnv
    /\ chain = NoChain
    /\ nss = <<>>
    /\ last = Idle
    /\ \E b \in {[name |-> "len", arg |-> 1], [name |-> "minLen", arg |-> 1],
                  [name |-> "maxLen", arg |-> 1],
                  [name |-> "prefix", arg |-> <<"a">>], [name |-> "suffix", arg |-> <<"a">>],
                  [name |-> "substring", arg |-> <<"a">>],
                  [name |-> "options", arg |-> << <<"a">>, <<"a", "b">> >>],
                  [name |-> "matches", arg |-> <<"a">>, global |-> FALSE],
                  [name |-> "matches", arg |-> <<"a">>, global |-> TRUE],
                  [name |-> "isURL", arg |-> Undefined],
                  [name |-> "isURL", arg |-> Arr(<< <<"a", ":">> >>)],
                  [name |-> "isPort"]} :
          /\ pipes = <<>>
          /\ errs = <<>>
          /\ fns = Instance([pipes |-> <<>>, fns |-> <<>>, ctxs |-> <<>>, errs |-> <<>>], b).w.fns
          /\ ctxs = Instance([pipes |-> <<>>, fns |-> <<>>, ctxs |-> <<>>, errs |-> <<>>], b).w.ctxs

NextPred ==
    \E f \in 1..Len(fns),
       v \in {Str(<<>>), Str(<<"a">>), Str(<<"a", "b">>), Str(<<"b", "a">>), Str(<<"b">>),
              Str(<<"a", ":", "b">>), Str(<<"b", ":">>), Str(<<":", "a">>),
              Num(0 - 1), Num(0), Num(1), Num(65535), Num(65536),
              FromTenths(5), FromTenths(805),
              Arr(<<>>), Arr(<< <<"a">> >>)} :
        CallsLeft /\ Apply(f, v)

SpecPred == InitPred /\ [][NextPred]_vars

----------------------------------------------------------------------------
(* Life specification: the client changes process.env between calls, makes *)
(* string pipelines with required and array pipelines from a default array *)
(* it keeps a reference to, and converts, transforms and builds them.      *)

\* process.env[k] = v that reaches the pipelines made for k
SetEnv_live(k, v) ==
    /\ env' = Put(env, k, v)
    /\ Outcome(Return([World EXCEPT !.pipes =
                          [i \in 1..Len(pipes) |->
                              IF pipes[i].key = k THEN [pipes[i] EXCEPT !.value = v]
                              ELSE pipes[i]]],
                      v),
               [op |-> "setenv", key |-> k, value |-> v])
    /\ UNCHANGED <<nss, chain>>

\* process.env[k] = v by the client; v = Undefined leaves the variable
\* undefined, as the tests do on their copy of process.env.
SetEnv(k, v) ==
    /\ env' = Put(env, k, v)
    /\ Outcome(Return(World, v), [op |-> "setenv", key |-> k, value |-> v])
    /\ UNCHANGED <<nss, chain>>

\* const d = ["b", "a"]: an array literal evaluated by the client.
NewArray(items) ==
    /\ Outcome(Return(NewObj(World, [items |-> items]), ArrRef(NewRef(World))),
               [op |-> "literal"])
    /\ UNCHANGED <<env, nss, chain>>

\* The arrays the client holds a reference to.
HeldArrays == {ArrRef(r) : r \in {i \in 1..Len(ctxs) : Has(ctxs[i], "items")}}

\* a => a.reverse()
Reverse == [name |-> "reverse"]

NextLife ==
    \/ CallsLeft /\ Required(KeyP)
    \/ \E v \in {Undefined, Str(<<"2">>)} : CallsLeft /\ SetEnv(KeyP, v)
    \/ CallsLeft /\ HeldArrays = {} /\ NewArray(<< <<"b">>, <<"a">> >>)
    \/ \E d \in HeldArrays : CallsLeft /\ Array(KeyPort, d)
    \/ \E p \in 1..Len(pipes) : CallsLeft /\ Transform(p, Reverse)
    \/ \E p \in 1..Len(pipes) : CallsLeft /\ Convert(p, ToNumber)
    \/ \E p \in 1..Len(pipes) : CallsLeft /\ Build(p)

SpecLife == InitChain /\ [][NextLife]_vars

----------------------------------------------------------------------------
(* Vocabulary of the properties *)

EntryOps == {"required", "optional", "number", "bool", "array"}

EntryCall == last.op \in EntryOps

\* The raw value the last constructor call found in the environment.
RawAtCall == Lookup(env, last.key)

Threw(name) == ~last.ok /\ errs[last.ret].name = name
ThrownCtx == ctxs[errs[last.ret].context]
Returned == last.ok
ReturnedPipe == pipes[last.ret]

\* s consists of white space only (the empty string included).
Blank(s) == \A i \in 1..Len(s) : s[i] \in {" ", "\t"}

\* t is s without its leading and trailing white space.
IsTrimOf(t, s) ==
    /\ \E i, j \in 0..Len(s) :
          /\ i + j <= Len(s)
          /\ t = SubSeq(s, i + 1, Len(s) - j)
          /\ Blank(SubSeq(s, 1, i))
          /\ Blank(SubSeq(s, Len(s) - j + 1, Len(s)))
    /\ t # <<>> => (~Blank(<<t[1]>>) /\ ~Blank(<<t[Len(t)]>>))

\* The outcome of the last call is the outcome r.
SameOutcome(r) == last.ok = r.ok /\ last.ret = r.ret /\ World = r.w

\* The explicit value s fails the validation or conversion of constructor op.
FailsValidation(op, s) ==
    CASE op \in {"required", "optional"} -> Blank(s)
      [] op = "number" -> ~toNumber(last.pre, s).ok
      [] op = "bool" -> ~toBool(last.pre, s).ok
      [] op = "array" -> ~toArray(last.pre, s, <<",">>).ok

----------------------------------------------------------------------------
(* C1: required(key) fails with MissingError when the environment has no   *)
(* value for key, fails with AssertError (minLen(1) on the trimmed value), *)
(* never MissingError, when the value is empty or white space only, and    *)
(* otherwise yields a pipeline holding the trimmed looked-up string.       *)
C1_Required ==
    last.op = "required" =>
        /\ RawAtCall = Undefined => Threw("MissingError")
        /\ (RawAtCall # Undefined /\ Blank(RawAtCall.v)) =>
              /\ Threw("AssertError")
              /\ ThrownCtx.minimumLength = 1
              /\ ThrownCtx.value = Str(<<>>)
        /\ (RawAtCall # Undefined /\ ~Blank(RawAtCall.v)) =>
              /\ Returned
              /\ ReturnedPipe.key = last.key
              /\ IsStr(ReturnedPipe.value)
              /\ IsTrimOf(ReturnedPipe.value.v, RawAtCall.v)

C1_Witness ==
    /\ last.op = "required"
    /\ RawAtCall = Str(<<>>)
    /\ Threw("AssertError")

C3_TypedConstructors ==
    last.op \in {"number", "bool", "array"} =>
        /\ (RawAtCall = Undefined /\ last.def # Undefined) =>
              /\ Returned
              /\ ReturnedPipe = [key |-> last.key, value |-> last.def]
        /\ (RawAtCall = Undefined /\ last.def = Undefined) => Threw("MissingError")
        /\ RawAtCall # Undefined =>
              LET c == CASE last.op = "number" -> toNumber(last.pre, RawAtCall.v)
                         [] last.op = "bool" -> toBool(last.pre, RawAtCall.v)
                         [] last.op = "array" -> toArray(last.pre, RawAtCall.v, <<",">>)
              IN IF c.ok
                 THEN Returned /\ ReturnedPipe = [key |-> last.key, value |-> c.ret]
                 ELSE SameOutcome(c) /\ Threw("ConversionError")

C3_Witness ==
    /\ last.op = "number"
    /\ RawAtCall = Undefined
    /\ last.def = Num(0)
    /\ Returned
    /\ ReturnedPipe.value = Num(0)

(* C4: whenever the environment holds an explicit value for the key and    *)
(* that value fails validation or conversion, the constructor call fails,  *)
(* and the default is not returned in its place.                           *)
C4_NoFallbackOnInvalid ==
    (EntryCall /\ RawAtCall # Undefined /\ FailsValidation(last.op, RawAtCall.v))
        => ~Returned

(* C10: a namespace method behaves exactly like the unprefixed constructor *)
(* called with normalizedPrefix + key, where normalizedPrefix is the       *)
(* prefix with a trailing '_' appended if missing and never duplicated, so *)
(* a prefix and the same prefix followed by '_' give the same key.         *)
C10_Prefix ==
    /\ \A n \in 1..Len(nss) :
          LET p == nss[n].prefix
              np == nss[n].normalizedPrefix
          IN /\ EndsWith(np, "_")
             /\ EndsWith(p, "_") => np = p
             /\ ~EndsWith(p, "_") => np = p \o <<"_">>
    /\ \A m, n \in 1..Len(nss) :
          nss[n].prefix = nss[m].prefix \o <<"_">> /\ ~EndsWith(nss[m].prefix, "_")
             => nss[n].normalizedPrefix = nss[m].normalizedPrefix
    /\ (EntryCall /\ last.ns # 0) =>
          LET p == nss[last.ns].prefix
              expected == (IF EndsWith(p, "_") THEN p ELSE p \o <<"_">>) \o last.arg
          IN /\ last.key = expected
             /\ SameOutcome(Construct(last.pre, env, last.op, expected, last.def))

C10_Witness ==
    /\ EntryCall
    /\ last.ns # 0
    /\ nss[last.ns].prefix = <<"A">>
    /\ last.key = <<"A", "_", "P">>
    /\ Returned
    /\ \E n \in 1..Len(nss) :
          nss[n].prefix = <<"A", "_">> /\ nss[n].normalizedPrefix = <<"A", "_">>

----------------------------------------------------------------------------
(* Vocabulary of the chain properties *)

\* The pipeline the last call was made on, as it was before the call.
Target == last.pre.pipes[last.p]

FailedAssert == last.op = "assert" /\ ~last.ok

\* The context the claim expects of a failed assert(a, msg) on key k and
\* value v: the fields a was created with, userMessage when a message was
\* given, and key and value written over any fields of the same name.
ExpectedContext(given, msg, k, v) ==
    Put(Put(IF msg = Undefined THEN given ELSE Put(given, "userMessage", msg),
            "key", k),
        "value", v)

(* C5: a failed assert(a, msg) on a pipeline with key k and value v throws *)
(* AssertError whose context is exactly the context a was created with     *)
(* (empty if none), plus userMessage = msg if a message was given, plus    *)
(* key = k and value = v; whatever assert calls used a before.             *)
C5_AssertContext ==
    FailedAssert =>
        /\ errs[last.ret].name = "AssertError"
        /\ ThrownCtx = ExpectedContext(fns[last.f].given, last.msg,
                                       Target.key, Target.value)

(* C6: an assertion is immutable once created: after any sequence of       *)
(* operations its context has exactly the fields and values it was created *)
(* with.                                                                   *)
C6_AssertionImmutable ==
    \A f \in 1..Len(fns) :
        fns[f].context # 0 => ctxs[fns[f].context] = fns[f].given

(* C7: convert(fn) leaves the pipeline it is called on as it was and       *)
(* returns a pipeline with the same key and the value fn(v); and when fn   *)
(* and gn do not throw, convert(fn) followed by convert(gn) on its result  *)
(* gives a pipeline with the key and the value that the single             *)
(* convert(v => gn(fn(v))) gives on the first pipeline.                    *)
C7_ConvertComposes ==
    (last.op = "convert" /\ Returned) =>
        /\ pipes[last.p] = Target
        /\ ReturnedPipe.key = Target.key
        /\ ReturnedPipe.value = Call(last.pre, last.body, Target.value).ret
        /\ (last.prev.op = "convert" /\ last.prev.ok /\ last.p = last.prev.ret) =>
              LET single == convert(last.pre, last.prev.p,
                                    Compose(last.prev.body, last.body))
              IN /\ single.ok
                 /\ single.w.pipes[single.ret] = ReturnedPipe

C7_Witness ==
    /\ last.op = "convert" /\ Returned
    /\ last.prev.op = "convert" /\ last.prev.ok /\ last.p = last.prev.ret
    /\ last.prev.body = ToNumber /\ last.body = Compose(Double, NumberToString)
    /\ pipes[last.prev.p].value = Str(<<"2">>)
    /\ ReturnedPipe = [key |-> KeyQ, value |-> Str(<<"4">>)]

(* C8: assert on a value the predicate accepts returns the same pipeline   *)
(* and leaves its value as it was, so a second assert(a) gives what the    *)
(* first gave; assert on a value the predicate rejects always throws       *)
(* AssertError, however many assertions succeeded before.                  *)
C8_AssertIdempotent ==
    last.op = "assert" =>
        IF Pred(fns[last.f].body, Target.value)
        THEN /\ Returned
             /\ last.ret = last.p
             /\ pipes = last.pre.pipes
        ELSE Threw("AssertError") /\ pipes = last.pre.pipes

C8_Witness ==
    /\ last.op = "assert" /\ Returned
    /\ last.prev.op = "assert" /\ last.prev.ok
    /\ last.prev.p = last.p /\ last.prev.f = last.f

C8_WitnessFailAfterPass ==
    /\ FailedAssert
    /\ last.prev.op = "assert" /\ last.prev.ok /\ last.prev.p = last.p

----------------------------------------------------------------------------
(* Vocabulary of the chained expression *)

\* The steps whose function has been invoked.
InvokedSteps == {chain.invoked[i].step : i \in 1..Len(chain.invoked)}

Evaluating == chain.status \in {"running", "thrown", "done"}

EntryUnset ==
    chain.entry.op = "required" /\ Lookup(env, chain.entry.key) = Undefined

(* C9: the operations of a chain run in call order, each invoking its      *)
(* function when it is called; when the entry constructor or an operation  *)
(* throws, the throwing call is the last call made and no function of a    *)
(* later operation has been invoked; and required on an unset variable     *)
(* throws MissingError with no function invoked at all.                    *)
C9_EagerFailStop ==
    Evaluating =>
        /\ Len(chain.invoked) = chain.pc
        /\ \A i \in 1..Len(chain.invoked) : chain.invoked[i].step = i
        /\ chain.status = "thrown" =>
              /\ ~last.ok
              /\ last.n = chain.pc + 1
              /\ InvokedSteps \cap ((chain.pc + 1)..Len(chain.steps)) = {}
        /\ chain.status = "running" => last.ok /\ last.ret = chain.head
        /\ EntryUnset =>
              /\ chain.status = "thrown"
              /\ Threw("MissingError")
              /\ chain.invoked = <<>>

C9_Witness ==
    /\ EntryUnset
    /\ chain.status = "thrown"
    /\ Len(chain.steps) = 3
    /\ chain.steps[1] = [op |-> "convert", fn |-> ToNumber]
    /\ chain.steps[3].op = "assert"
    /\ chain.invoked = <<>>

C9_WitnessStepThrows ==
    /\ chain.status = "thrown"
    /\ chain.pc = 1
    /\ Len(chain.steps) = 3
    /\ Threw("ConversionError")

----------------------------------------------------------------------------
(* Claims C11 to C20 *)

\* normalize of the claims: the prefix with one trailing '_' appended when
\* it does not end with one.
Normalize(p) == IF EndsWith(p, "_") THEN p ELSE p \o <<"_">>

(* C11: ns.withPrefix(p2), ns a namespace of normalized prefix np1, gives a *)
(* namespace that resolves every key as np1 + normalize(p2) + key, for     *)
(* every prefix string p2.                                                 *)
C11_NestedPrefix ==
    (last.op = "withPrefix" /\ last.ns # 0) =>
        \A k \in EntryKeys :
            PrefixedKey(nss[last.ret], k) =
                nss[last.ns].normalizedPrefix \o Normalize(last.arg) \o k

LibraryErrors == {"MissingError", "AssertError", "ConversionError"}

(* C12: every MissingError, AssertError or ConversionError thrown by the   *)
(* entry constructor or by an operation of a chain has in its context the  *)
(* key of the variable the chain was started on.                           *)
C12_ErrorsCarryKey ==
    (chain.status = "thrown" /\ errs[last.ret].name \in LibraryErrors) =>
        /\ Has(ThrownCtx, "key")
        /\ ThrownCtx.key = chain.entry.key

PortChain ==
    /\ chain.entry = [op |-> "number", key |-> KeyPort, def |-> Undefined]
    /\ chain.steps = <<[op |-> "assert", fn |-> [name |-> "isPort"]]>>

PortIs(raw) == Lookup(env, KeyPort) = Str(raw)

(* C13: number("PORT").assert(isPort()).build() returns the number 3000    *)
(* when PORT is "3000"; when PORT is "99999" the assert throws AssertError *)
(* whose context has min = 1, max = 65535, key = "PORT" and value = the    *)
(* number 99999.                                                           *)
C13_PortChain ==
    (PortChain /\ Evaluating) =>
        /\ PortIs(<<"3", "0", "0", "0">>) =>
              /\ chain.status # "thrown"
              /\ pipes[chain.head].value = Num(3000)
              /\ chain.status = "done" => last.ret = Num(3000)
        /\ PortIs(<<"9", "9", "9", "9", "9">>) =>
              /\ chain.status # "done"
              /\ chain.status = "running" =>
                    chain.pc = 0 /\ pipes[chain.head].value = Num(99999)
              /\ chain.status = "thrown" =>
                    /\ chain.pc = 1
                    /\ Threw("AssertError")
                    /\ ThrownCtx.min = 1
                    /\ ThrownCtx.max = 65535
                    /\ ThrownCtx.key = KeyPort
                    /\ ThrownCtx.value = Num(99999)

C13_Witness ==
    /\ PortChain
    /\ PortIs(<<"9", "9", "9", "9", "9">>)
    /\ chain.status = "thrown"
    /\ ThrownCtx.value = Num(99999)

C13_WitnessBuilt ==
    /\ PortChain
    /\ PortIs(<<"3", "0", "0", "0">>)
    /\ chain.status = "done"
    /\ last.ret = Num(3000)

----------------------------------------------------------------------------
(* Vocabulary of the converter properties *)

\* The string the converter, or the constructor, was called on.
ConvArg == env[KeyP].v

\* The number the call produced: what toNumber returned, or the value of
\* the pipeline number returned.
Produced == IF last.op \in EntryOps THEN ReturnedPipe.value ELSE last.ret

\* lit is a numeral as String writes a number of the model: no sign or '-',
\* digits without a leading zero, and at most one fractional digit, not 0.
PlainDigits(d) == AllDigits(d) /\ (Len(d) > 1 => d[1] # "0")
Unsigned(lit) ==
    \/ PlainDigits(lit)
    \/ /\ Len(lit) >= 3
       /\ PlainDigits(SubSeq(lit, 1, Len(lit) - 2))
       /\ lit[Len(lit) - 1] = "."
       /\ IsDigit(lit[Len(lit)]) /\ lit[Len(lit)] # "0"
PlainNumeral(lit) ==
    \/ Unsigned(lit)
    \/ Len(lit) >= 2 /\ lit[1] = "-" /\ Unsigned(Tail(lit)) /\ Tail(lit) # <<"0">>

\* s has a character no numeric literal of the model alphabet has, or white
\* space inside.
NonNumeric(s) ==
    \/ \E i \in 1..Len(s) : ~IsDigit(s[i]) /\ s[i] \notin {"+", "-", ".", " ", "\t"}
    \/ \E i, j, k \in 1..Len(s) :
          i < j /\ j < k /\ ~Blank(<<s[i]>>) /\ Blank(<<s[j]>>) /\ ~Blank(<<s[k]>>)
    \/ \E t \in {<<"+">>, <<"-">>, <<".">>} : IsTrimOf(t, s)

(* C15: toNumber(s), and number(key) when the variable holds s, fail with  *)
(* ConversionError when s is empty or not numeric; white space alone       *)
(* coerces to 0; and a numeral with white space around it gives the number *)
(* it denotes (the number String writes as that numeral).                  *)
C15_ToNumber ==
    last.op \in {"toNumber", "number"} =>
        /\ ConvArg = <<>> => Threw("ConversionError")
        /\ NonNumeric(ConvArg) =>
              Threw("ConversionError") /\ ThrownCtx.value = Str(ConvArg)
        /\ (ConvArg # <<>> /\ Blank(ConvArg)) => Returned /\ Produced = Num(0)
        /\ \A lit \in ConvInputs :
              (PlainNumeral(lit) /\ IsTrimOf(lit, ConvArg)) =>
                 /\ Returned
                 /\ Produced.t = "number"
                 /\ NumberString(Produced) = lit
        /\ Returned => Produced.t = "number"
        /\ ~Returned => Threw("ConversionError")

C15_Witness ==
    /\ last.op = "toNumber"
    /\ ConvArg = <<" ", "4", "2", " ">>
    /\ Returned
    /\ last.ret = Num(42)

\* The words toBool recognizes, as the claim lists them.
TrueWords == {<<"t", "r", "u", "e">>, <<"y", "e", "s">>, <<"1">>, <<"o", "n">>}
FalseWords == {<<"f", "a", "l", "s", "e">>, <<"n", "o">>, <<"0">>, <<"o", "f", "f">>}

\* s is the word w up to the case of its letters and surrounding white space.
IsWord(s, w) == IsTrimOf(w, ToLowerCase(s))

(* C16: toBool(s) returns true exactly when s, lower-cased and without its *)
(* surrounding white space, is one of true, yes, 1, on; false exactly when *)
(* it is one of false, no, 0, off; and fails with ConversionError for any  *)
(* other string, the empty string included.                                *)
C16_ToBool ==
    last.op = "toBool" =>
        /\ (\E w \in TrueWords : IsWord(ConvArg, w)) <=>
              (Returned /\ last.ret = Bool(TRUE))
        /\ (\E w \in FalseWords : IsWord(ConvArg, w)) <=>
              (Returned /\ last.ret = Bool(FALSE))
        /\ (\A w \in TrueWords \cup FalseWords : ~IsWord(ConvArg, w)) <=>
              (Threw("ConversionError") /\ ThrownCtx.value = Str(ConvArg))

C16_Witness ==
    /\ last.op = "toBool"
    /\ ConvArg = <<" ", "O", "n", " ">>
    /\ Returned
    /\ last.ret = Bool(TRUE)

C16_WitnessEmpty ==
    /\ last.op = "toBool"
    /\ ConvArg = <<>>
    /\ Threw("ConversionError")

\* The number of occurrences of sep in s, counted from the left, each
\* starting where the one before it ended; the empty string occurs before
\* every character and at the end.
RECURSIVE Occurrences(_, _)
Occurrences(s, sep) ==
    IF sep = <<>> THEN Len(s) + 1
    ELSE IF Len(s) < Len(sep) THEN 0
    ELSE IF SubSeq(s, 1, Len(sep)) = sep
         THEN 1 + Occurrences(SubSeq(s, Len(sep) + 1, Len(s)), sep)
    ELSE Occurrences(Tail(s), sep)

RECURSIVE Join(_, _)
Join(a, sep) ==
    IF a = <<>> THEN <<>>
    ELSE IF Len(a) = 1 THEN a[1]
    ELSE a[1] \o sep \o Join(Tail(a), sep)

Strip(s) == SelectSeq(s, LAMBDA c : ~Blank(<<c>>))

IsSubstring(t, s) ==
    \E i \in 0..Len(s) : i + Len(t) <= Len(s) /\ SubSeq(s, i + 1, i + Len(t)) = t

\* a is made of the segments of s between the separators, each trimmed, in
\* order.
TrimmedSegments(a, s, sep) ==
    /\ \A i \in 1..Len(a) :
          /\ IsSubstring(a[i], s)
          /\ a[i] # <<>> => (~Blank(<<a[i][1]>>) /\ ~Blank(<<a[i][Len(a[i])]>>))
    /\ Strip(Join(a, sep)) = Strip(s)

(* C17 as claimed: toArray(s, sep) never fails and returns the segments of *)
(* s split on sep, each trimmed, in order; the result has one element more *)
(* than sep has occurrences in s, and the empty string gives [""].         *)
C17_ToArray ==
    last.op = "toArray" =>
        /\ Returned
        /\ last.ret.t = "array"
        /\ Len(last.ret.v) = Occurrences(ConvArg, last.sep) + 1
        /\ ConvArg = <<>> => last.ret = Arr(<< <<>> >>)

(* C17 amended: toArray(s, sep) never fails; for a separator that is not   *)
(* empty it returns the segments of s split on sep, each trimmed, in       *)
(* order, one more than sep has occurrences in s, so that the empty string *)
(* gives [""] and a trailing separator a trailing empty element; for the   *)
(* empty separator it returns the characters of s, each trimmed, and so    *)
(* the empty array for the empty string.                                   *)
C17_ToArrayAmended ==
    last.op = "toArray" =>
        /\ Returned
        /\ last.ret.t = "array"
        /\ last.sep # <<>> =>
              /\ Len(last.ret.v) = Occurrences(ConvArg, last.sep) + 1
              /\ TrimmedSegments(last.ret.v, ConvArg, last.sep)
              /\ ConvArg = <<>> => last.ret = Arr(<< <<>> >>)
        /\ last.sep = <<>> =>
              /\ Len(last.ret.v) = Len(ConvArg)
              /\ \A i \in 1..Len(ConvArg) :
                    last.ret.v[i] = IF Blank(<<ConvArg[i]>>) THEN <<>> ELSE <<ConvArg[i]>>

C17_Witness ==
    /\ last.op = "toArray"
    /\ ConvArg = <<"a", ",">>
    /\ last.sep = <<",">>
    /\ Returned
    /\ last.ret = Arr(<< <<"a">>, <<>> >>)

----------------------------------------------------------------------------
(* Vocabulary of the predicate properties *)

Applied == last.op = "apply"
AppliedTo(name) == Applied /\ fns[last.f].body.name = name

\* The number x is a whole number between lo and hi.
WholeBetween(x, lo, hi) ==
    /\ "tenths" \notin DOMAIN x
    /\ lo <= x.v /\ x.v <= hi

(* C14: isPort() returns true for v if and only if v is integer-valued and *)
(* 1 <= v <= 65535, and its context has min = 1 and max = 65535.           *)
C14_IsPort ==
    AppliedTo("isPort") =>
        /\ last.ret <=> WholeBetween(last.arg, 1, 65535)
        /\ ctxs[fns[last.f].context].min = 1
        /\ ctxs[fns[last.f].context].max = 65535

(* C19: applying a built-in assertion to a value changes no state, and     *)
(* applying it again to the same value, with or without applications to    *)
(* other values in between, returns what it returned before.               *)
C19_PurePredicates ==
    Applied =>
        /\ World = last.pre
        /\ (last.prev.op = "apply" /\ last.prev.arg = last.arg) =>
              last.ret = last.prev.ret

\* The objects that existed before the last call are as they were.
OldContextsKept ==
    \A c \in 1..Len(last.pre.ctxs) : ctxs[c] = last.pre.ctxs[c]

(* C18: narrow(pred, msg) returns the same pipeline, key and value as they *)
(* were, when pred(v) is true; when it is false it throws AssertError      *)
(* whose context is a new object with description "Failed type-narrowing", *)
(* userMessage = msg when a message was given (the empty string counts as  *)
(* none), and the key and value of the pipeline; no context of an earlier  *)
(* failure is part of it or changed by it.                                 *)
C18_Narrow ==
    last.op = "narrow" =>
        IF Pred(last.body, Target.value)
        THEN /\ Returned
             /\ last.ret = last.p
             /\ World = last.pre
        ELSE /\ Threw("AssertError")
             /\ pipes = last.pre.pipes
             /\ errs[last.ret].context = Len(last.pre.ctxs) + 1
             /\ OldContextsKept
             /\ ThrownCtx =
                   ExpectedContext([description |-> <<"Failed type-narrowing">>],
                                   IF last.msg = Str(<<>>) THEN Undefined ELSE last.msg,
                                   Target.key, Target.value)

C18_Witness ==
    /\ last.op = "narrow"
    /\ Threw("AssertError")
    /\ last.msg = Undefined
    /\ last.prev.op = "narrow" /\ ~last.prev.ok /\ last.prev.msg = Str(<<"m">>)
    /\ last.prev.p = last.p
    /\ \E e \in 1..Len(last.pre.errs) : Has(ctxs[errs[e].context], "userMessage")

(* C20: after an operation of a chain has returned, the reference it was   *)
(* called on is equivalent to the reference it returned: build() on either *)
(* returns the same value, and the same further conversion of either gives *)
(* the same value.                                                         *)
C20_ReferencesEquivalent ==
    (last.op \in {"transform", "convert"} /\ Returned) =>
        /\ build(World, last.p).ret = build(World, last.ret).ret
        /\ \A b \in FlowFns :
              (Accepts(b, pipes[last.p].value) /\ Accepts(b, pipes[last.ret].value)) =>
                 LET old == convert(World, last.p, b)
                     new == convert(World, last.ret, b)
                 IN /\ old.ok = new.ok
                    /\ old.ok => old.w.pipes[old.ret] = new.w.pipes[new.ret]

----------------------------------------------------------------------------
(* Claims C21 to C30 *)

ChainOps == {"transform", "assert", "convert", "narrow", "build"}

\* The environment that has of e only the variable key.
OnlyKey(e, key) == [k \in (DOMAIN e) \cap {key} |-> e[k]]

\* The value v as the caller sees it in the heap w: the elements, for an
\* array held by reference.
Deref(w, v) == IF v.t = "arrayref" THEN Arr(w.ctxs[v.r].items) ELSE v

C22_NoSharedState ==
    last.op \in ChainOps =>
        \A q \in 1..Len(last.pre.pipes) :
            q # last.p =>
                /\ pipes[q].key = last.pre.pipes[q].key
                /\ Deref(World, pipes[q].value) =
                      Deref(last.pre, last.pre.pipes[q].value)

(* C23: every pipeline of a chain, the pipelines convert made included, has *)
(* the key the entry constructor was called with (normalizedPrefix + k     *)
(* under a prefix), and an AssertError raised along the chain reports it.  *)
C23_KeyKept ==
    Evaluating =>
        /\ \A p \in 1..Len(pipes) : pipes[p].key = chain.entry.key
        /\ (chain.status = "thrown" /\ errs[last.ret].name = "AssertError") =>
              ThrownCtx.key = chain.entry.key

\* withPrefix("A").required("P").convert(toNumber).narrow(n => n == 1) with
\* A_P = "2": two pipelines, and the narrowing fails.
C23_Witness ==
    /\ chain.status = "thrown"
    /\ chain.entry.key = <<"A", "_", "P">>
    /\ chain.pc = 2
    /\ chain.steps[1].op = "convert"
    /\ chain.steps[2].op = "narrow"
    /\ Len(pipes) = 2
    /\ Threw("AssertError")

(* C24: assert with a predicate that returns true returns the pipeline it  *)
(* was called on and changes nothing: the key and the value of the         *)
(* pipeline and the context of the assertion are as before the call, with  *)
(* or without a message.                                                   *)
C24_PassingAssert ==
    (last.op = "assert" /\ Pred(fns[last.f].body, Target.value)) =>
        /\ Returned
        /\ last.ret = last.p
        /\ pipes[last.p] = Target
        /\ fns[last.f] = last.pre.fns[last.f]
        /\ ctxs = last.pre.ctxs
        /\ World = last.pre

\* A passing assert with a message, of an assertion that has a context.
C24_Witness ==
    /\ last.op = "assert" /\ Returned
    /\ last.msg = Str(<<"m">>)
    /\ fns[last.f].context # 0
    /\ ctxs[fns[last.f].context] = DescOnly

\* Step i of the chain has been called and has returned.
StepReturned(i) == i < chain.pc \/ (i = chain.pc /\ chain.status # "thrown")

\* The value of the pipeline after step i returned: what the next function
\* was invoked with, or what the pipeline holds now.
ValueAfter(i) ==
    IF i < Len(chain.invoked) THEN chain.invoked[i + 1].arg
    ELSE pipes[chain.head].value

\* Steps i to j are all transform.
TransformRun(i, j) == \A k \in i..j : chain.steps[k].op = "transform"

\* v => fj(...fi(v)) for the functions of steps i to j
RECURSIVE Composed(_, _)
Composed(i, j) ==
    IF i = j THEN chain.steps[i].fn
    ELSE Compose(Composed(i, j - 1), chain.steps[j].fn)

(* C25: transform(fn) on a pipeline holding v returns whenever fn(v) does, *)
(* returns the pipeline it was called on, with the same key and the value  *)
(* fn(v); and after successive transforms f1..fn the pipeline holds        *)
(* fn(...f1(v)), the functions applied in call order.                      *)
C25_Transform ==
    Evaluating =>
        /\ last.op = "transform" =>
              /\ last.ok = Call(last.pre, last.body, Target.value).ok
              /\ last.ok =>
                    /\ last.ret = last.p
                    /\ Len(pipes) = Len(last.pre.pipes)
                    /\ pipes[last.p].key = Target.key
                    /\ pipes[last.p].value = Call(last.pre, last.body, Target.value).ret
        /\ \A i, j \in 1..Len(chain.invoked) :
              (i <= j /\ TransformRun(i, j) /\ StepReturned(j)) =>
                 ValueAfter(j) = Call(World, Composed(i, j), chain.invoked[i].arg).ret

\* required("P").convert(toNumber).transform(double).transform(double) with
\* P = "2" holds 8.
C25_Witness ==
    /\ chain.status = "running"
    /\ chain.pc = 3
    /\ chain.steps[1] = [op |-> "convert", fn |-> ToNumber]
    /\ TransformRun(2, 3)
    /\ chain.invoked[2].arg = Num(2)
    /\ pipes[chain.head].value = Num(8)

(* C26: build() returns the value the pipeline holds, never throws and     *)
(* changes nothing, so that build() called again with no operation in      *)
(* between returns the same value.                                         *)
C26_Build ==
    last.op = "build" =>
        /\ Returned
        /\ last.ret = Target.value
        /\ pipes[last.p] = Target
        /\ World = last.pre
        /\ (last.prev.op = "build" /\ last.prev.p = last.p) => last.ret = last.prev.ret

\* Two build() calls in a row on a pipeline convert made.
C26_Witness ==
    /\ last.op = "build" /\ Returned
    /\ last.prev.op = "build" /\ last.prev.p = last.p
    /\ last.p > 1
    /\ last.ret = Num(2)

(* C27: when an operation of a chain fails, the pipelines are as they were *)
(* before the call and no pipeline has been made; a failing assert or      *)
(* narrow throws AssertError, and what the function of a transform or a    *)
(* convert throws leaves the call as the function threw it.                *)
C27_FailedOperation ==
    (chain.status = "thrown" /\ chain.pc >= 1) =>
        /\ pipes = last.pre.pipes
        /\ last.op \in {"assert", "narrow"} => Threw("AssertError")
        /\ last.op \in {"transform", "convert"} =>
              SameOutcome(Call(last.pre, last.body, Target.value))

\* required("P").convert(toNumber).transform(boom): the transform throws
\* what its function threw.
C27_Witness ==
    /\ chain.status = "thrown"
    /\ chain.pc = 2
    /\ last.op = "transform"
    /\ Len(pipes) = 2
    /\ errs[last.ret].name = "Error"

\* required("P").convert(toNumber) with P = "x": no second pipeline.
C27_WitnessConvert ==
    /\ chain.status = "thrown"
    /\ chain.pc = 1
    /\ last.op = "convert"
    /\ Len(pipes) = 1
    /\ Threw("ConversionError")

\* What an error context reports of the failure: key, value, userMessage.
Report(o) == [x \in (DOMAIN o) \cap {"key", "value", "userMessage"} |-> o[x]]

(* C28: the context of an AssertError thrown earlier reports, after any    *)
(* later call, the key, the value and the userMessage it reported before   *)
(* the call.                                                               *)
C28_ErrorStable ==
    Has(last, "pre") =>
        \A e \in 1..Len(last.pre.errs) :
            errs[e].name = "AssertError" =>
                Report(ctxs[errs[e].context]) = Report(last.pre.ctxs[errs[e].context])

(* C29: create(f, c) returns an assertion that exposes c, and every        *)
(* assertion made before exposes the context it was made with, also when   *)
(* it was made from the same function f.                                   *)
C29_CreateOwnContext ==
    last.op = "create" =>
        /\ fns[last.ret].context = Len(last.pre.ctxs) + 1
        /\ ctxs[fns[last.ret].context] = fns[last.ret].given
        /\ \A f \in 1..Len(last.pre.fns) :
              last.pre.fns[f].context # 0 => fns[f].context = last.pre.fns[f].context

(* C30: a pipeline returned by required or optional holds a string of at   *)
(* least one character that neither starts nor ends with white space,      *)
(* whatever the environment and the default.                               *)
C30_TrimmedNonEmpty ==
    (last.op \in {"required", "optional"} /\ Returned) =>
        /\ IsStr(ReturnedPipe.value)
        /\ Len(ReturnedPipe.value.v) >= 1
        /\ ~IsWhite(ReturnedPipe.value.v[1])
        /\ ~IsWhite(ReturnedPipe.value.v[Len(ReturnedPipe.value.v)])

\* optional through its default, which has white space around it.
C30_Witness ==
    /\ last.op = "optional"
    /\ RawAtCall = Undefined
    /\ last.def = Str(<<" ", "d", " ">>)
    /\ Returned
    /\ ReturnedPipe.value = Str(<<"d">>)

\* required on a value with white space around it.
C30_WitnessRequired ==
    /\ last.op = "required"
    /\ RawAtCall = Str(<<" ", "a", " ">>)
    /\ Returned
    /\ ReturnedPipe.value = Str(<<"a">>)

====
